---- MODULE Spec2Model ----
EXTENDS Integers, Sequences, FiniteSets, TLC

(***************************************************************************)
(* Model of newrelic_chart.py: a single-shot command line program that     *)
(* loads two fields from a JSON configuration file, POSTs a GraphQL        *)
(* document that embeds an NRQL query, and downloads the returned chart    *)
(* URL into an output file.                                                *)
(***************************************************************************)

\* ------------------------------------------------------------- bounds
MaxLen == 1         \* longest NRQL query of a full program run
MaxEscLen == 3      \* longest NRQL query of the escaping runs
MaxErrors == 2      \* longest "errors" array of a response
MaxCfgChanges == 1  \* times another process rewrites the configuration file

\* ------------------------------------------------------------- characters
DQ == "dq"          \* the double-quote character
BS == "bs"          \* the backslash character
NL == "nl"          \* the newline character
Chars == {DQ, BS, NL, "a"}

SeqsUpTo(S, n) == UNION {[1..k -> S] : k \in 0..n}

\* ------------------------------------------------------------- JSON / Python values
JNull == [t |-> "null"]
JStr(s) == [t |-> "str", v |-> s]
JNum(n) == [t |-> "num", v |-> n]
JArr(s) == [t |-> "arr", v |-> s]
JObj(r) == [t |-> "obj", v |-> r]
EmptyRec == [k \in {} |-> JNull]

\* Python truth value of a JSON value ("if chart_url:", "if results:")
Truthy(j) ==
    CASE j.t = "null" -> FALSE
      [] j.t = "str"  -> j.v # ""
      [] j.t = "num"  -> j.v # 0
      [] j.t = "arr"  -> j.v # <<>>
      [] j.t = "obj"  -> DOMAIN j.v # {}

\* "k in obj" of a dict
HasKey(o, k) == k \in DOMAIN o.v

\* obj[k1][k2]...: ok = FALSE when a key is absent (KeyError)
RECURSIVE GetPath(_, _)
GetPath(o, path) ==
    IF path = <<>> THEN [ok |-> TRUE, val |-> o]
    ELSE IF ~HasKey(o, Head(path)) THEN [ok |-> FALSE, val |-> JNull]
    ELSE GetPath(o.v[Head(path)], Tail(path))

\* one line printed on the console
Line(tag, arg) == [line |-> tag, arg |-> arg]

\* ------------------------------------------------------------- exceptions
NoExc == "none"

\* the except clauses of get_chart_from_nrql and download_chart_image
RequestExceptionLax(e) == e # NoExc
RequestException(e) ==
    e \in {"ConnectionError", "HTTPError", "RequestsJSONDecodeError"}

\* ------------------------------------------------------------- str.replace
StartsWith(s, p) == Len(s) >= Len(p) /\ SubSeq(s, 1, Len(p)) = p

\* s.replace(old, new) for a non-empty old: left to right, non-overlapping
RECURSIVE Replace(_, _, _)
Replace(s, old, new) ==
    IF s = <<>> THEN <<>>
    ELSE IF StartsWith(s, old)
         THEN new \o Replace(SubSeq(s, Len(old) + 1, Len(s)), old, new)
         ELSE <<Head(s)>> \o Replace(Tail(s), old, new)

EscapeQueryTwice(q) == Replace(Replace(q, <<DQ>>, <<BS, DQ>>), <<DQ>>, <<BS, DQ>>)
EscapeQueryAll(q) == Replace(Replace(q, <<BS>>, <<BS, BS>>), <<DQ>>, <<BS, DQ>>)
\* nrql_query.replace('"', '\\"')
EscapeQuery(q) == Replace(q, <<DQ>>, <<BS, DQ>>)

DefaultWidth == 400
DefaultHeight == 200

\* the GraphQL document: the values substituted into the template
GraphqlQuery(q, acct) ==
    [account_id |-> acct, query |-> EscapeQuery(q), chart_type |-> "LINE",
     format |-> "PNG", width |-> DefaultWidth, height |-> DefaultHeight]

\* the POST: url, headers, json payload
PostRequest(q, key, acct) ==
    [url |-> "https://api.newrelic.com/graphql",
     content_type |-> "application/json",
     api_key |-> key,
     query |-> GraphqlQuery(q, acct),
     variables |-> ""]

\* ------------------------------------------------------------- configuration file
AbsentFile == [kind |-> "absent", obj |-> JNull]
TextFile == [kind |-> "text", obj |-> JNull]       \* exists, is not JSON
JsonFile(o) == [kind |-> "json", obj |-> o]
FullConfig(k, a) == JObj([api_key |-> JStr(k), account_id |-> JNum(a)])
ConfigFiles ==
    {AbsentFile, TextFile,
     JsonFile(FullConfig("k1", 1)), JsonFile(FullConfig("k2", 2)),
     JsonFile(JObj([account_id |-> JNum(1)])),
     JsonFile(JObj([api_key |-> JStr("k1")])),
     JsonFile(JObj(EmptyRec))}

\* a loader that reads 'api_key' whatever field it is asked for
LoadFieldWrongKey(file, key) ==
    IF file.kind = "absent" THEN [exc |-> "FileNotFoundError", val |-> JNull]
    ELSE IF file.kind = "text" THEN [exc |-> "JSONDecodeError", val |-> JNull]
    ELSE IF ~HasKey(file.obj, "api_key") THEN [exc |-> "KeyError", val |-> JNull]
    ELSE [exc |-> NoExc, val |-> file.obj.v.api_key]
\* a loader that falls back to a default instead of failing
LoadFieldNoCheck(file, key) ==
    IF file.kind = "json" /\ HasKey(file.obj, key)
    THEN [exc |-> NoExc, val |-> file.obj.v[key]]
    ELSE [exc |-> NoExc, val |-> JStr("")]
\* open(config_file); json.load(f); config[key]
LoadField(file, key) ==
    IF file.kind = "absent" THEN [exc |-> "FileNotFoundError", val |-> JNull]
    ELSE IF file.kind = "text" THEN [exc |-> "JSONDecodeError", val |-> JNull]
    ELSE IF ~HasKey(file.obj, key) THEN [exc |-> "KeyError", val |-> JNull]
    ELSE [exc |-> NoExc, val |-> file.obj.v[key]]

\* ------------------------------------------------------------- POST responses
Messages == {"m1", "m2"}
ErrorObjs == {JObj([message |-> JStr(m)]) : m \in Messages}
                 \cup {JObj([extensions |-> JStr("x")])}
ErrorArrays == {JArr(s) : s \in SeqsUpTo(ErrorObjs, MaxErrors)}
Rows == {JArr(<<>>), JArr(<<JObj([count |-> JNum(1)])>>)}
Urls == {JNull, JStr(""), JStr("https://chart")}
NrqlObjs ==
    {JObj([results |-> r, staticChartUrl |-> u]) : r \in Rows, u \in Urls}
        \cup {JObj([staticChartUrl |-> JStr("https://chart")]),
              JObj([results |-> JArr(<<>>)])}
Wrap(S, k) == {JObj([x \in {k} |-> o]) : o \in S} \cup {JObj(EmptyRec)}
DataObjs == Wrap(Wrap(Wrap(NrqlObjs, "nrql"), "account"), "actor")
GoodData ==
    JObj([actor |-> JObj([account |-> JObj([nrql |->
        JObj([results |-> JArr(<<>>), staticChartUrl |-> JStr("https://chart")])])])])
Bodies ==
    {JObj([data |-> d]) : d \in DataObjs} \cup {JObj(EmptyRec)}
        \cup {JObj([errors |-> e]) : e \in ErrorArrays}
        \cup {JObj([errors |-> e, data |-> GoodData]) : e \in ErrorArrays}
PostOutcomes ==
    {[exc |-> e, body |-> JNull] :
        e \in {"ConnectionError", "HTTPError", "RequestsJSONDecodeError", "ValueError"}}
        \cup {[exc |-> NoExc, body |-> b] : b \in Bodies}

\* a loop that stops after the first error
PrintFirstError(errs) ==
    IF errs = <<>> THEN [lines |-> <<>>, exc |-> NoExc]
    ELSE IF ~HasKey(Head(errs), "message") THEN [lines |-> <<>>, exc |-> "KeyError"]
    ELSE [lines |-> <<Line("graphql_error", Head(errs).v.message.v)>>, exc |-> NoExc]

\* for error in data['errors']: print(error['message'])
RECURSIVE PrintErrors(_)
PrintErrors(errs) ==
    IF errs = <<>> THEN [lines |-> <<>>, exc |-> NoExc]
    ELSE IF ~HasKey(Head(errs), "message") THEN [lines |-> <<>>, exc |-> "KeyError"]
    ELSE LET r == PrintErrors(Tail(errs))
         IN  [lines |-> <<Line("graphql_error", Head(errs).v.message.v)>> \o r.lines,
              exc |-> r.exc]

\* the error check of the try block
ErrorBranch(data) ==
    LET pe == PrintErrors(data.v.errors.v)
    IN  [exc |-> pe.exc, lines |-> <<Line("graphql_errors", "")>> \o pe.lines,
         results |-> JNull, chart_url |-> JNull]

\* the data extraction of the try block
ExtractData(data) ==
    LET nrql_data == GetPath(data, <<"data", "actor", "account", "nrql">>)
        res == GetPath(nrql_data.val, <<"results">>)
        url == GetPath(nrql_data.val, <<"staticChartUrl">>)
    IN  IF ~nrql_data.ok \/ ~res.ok \/ ~url.ok
        THEN [exc |-> "KeyError", lines |-> <<>>, results |-> JNull, chart_url |-> JNull]
        ELSE [exc |-> NoExc, lines |-> <<>>, results |-> res.val, chart_url |-> url.val]

\* the try block of get_chart_from_nrql, given what the POST brought
GetChartTry(outcome) ==
    IF outcome.exc # NoExc
    THEN [exc |-> outcome.exc, lines |-> <<>>, results |-> JNull, chart_url |-> JNull]
    ELSE IF HasKey(outcome.body, "errors") THEN ErrorBranch(outcome.body)
    ELSE ExtractData(outcome.body)

\* get_chart_from_nrql after the POST: exc = NoExc when it returns (results, chart_url)
GetChartResult(outcome) ==
    LET t == GetChartTry(outcome)
    IN  IF t.exc # NoExc /\ RequestException(t.exc)
        THEN [exc |-> NoExc, lines |-> t.lines \o <<Line("api_request_error", t.exc)>>,
              results |-> JNull, chart_url |-> JNull]
        ELSE t

\* ------------------------------------------------------------- download
Contents == {"img1", "img2"}
NoFile == [exists |-> FALSE, content |-> ""]
FileOf(c) == [exists |-> TRUE, content |-> c]
GetOutcomes ==
    {[exc |-> e, content |-> ""] : e \in {"ConnectionError", "HTTPError"}}
        \cup {[exc |-> NoExc, content |-> c] : c \in Contents}
WriteOutcomes == {"ok", "open_fails", "write_fails"}

\* a write that keeps an existing file
WriteFileAppend(file, content, w) ==
    IF w = "open_fails" THEN [exc |-> "OSError", file |-> file]
    ELSE IF w = "write_fails" THEN [exc |-> "OSError", file |-> FileOf("")]
    ELSE [exc |-> NoExc, file |-> IF file.exists THEN file ELSE FileOf(content)]
\* with open(output_filename, 'wb') as f: f.write(response.content)
WriteFile(file, content, w) ==
    IF w = "open_fails" THEN [exc |-> "OSError", file |-> file]
    ELSE IF w = "write_fails" THEN [exc |-> "OSError", file |-> FileOf("")]
    ELSE [exc |-> NoExc, file |-> FileOf(content)]

\* download_chart_image: ret is "True"/"False", exc # NoExc when it raises
DownloadResult(file, got, w) ==
    IF got.exc # NoExc
    THEN IF RequestException(got.exc)
         THEN [exc |-> NoExc, ret |-> "False", file |-> file, opened |-> FALSE,
               lines |-> <<Line("download_error", got.exc)>>]
         ELSE [exc |-> got.exc, ret |-> "unset", file |-> file, opened |-> FALSE,
               lines |-> <<>>]
    ELSE LET wr == WriteFile(file, got.content, w)
         IN  IF wr.exc # NoExc
             THEN [exc |-> wr.exc, ret |-> "unset", file |-> wr.file, opened |-> TRUE,
                   lines |-> <<>>]
             ELSE [exc |-> NoExc, ret |-> "True", file |-> wr.file, opened |-> TRUE,
                   lines |-> <<Line("saved", "output_filename")>>]

\* ------------------------------------------------------------- program state
VARIABLES
    argc,          \* number of positional arguments: len(sys.argv) - 1
    argv_query,    \* sys.argv[1]
    cfg_file,      \* the configuration file on disk
    cfg_changes,   \* times another process has rewritten it
    out_file,      \* the output file on disk
    out_before,    \* the output file as it was before the run
    pc,            \* position of main
    nrql_query, config_file, api_key, account_id, results, chart_url,
    download_ret,  \* what download_chart_image returned
    sent,          \* the POST requests issued
    responses,     \* what each POST brought back
    received,      \* the GET responses received
    cfg_seen,      \* the configuration file as each open() found it
    events,        \* the I/O steps in the order they happened
    stdout,        \* the lines printed
    exit_status,   \* -1 while running
    fault          \* the exception that left main unhandled

vars == <<argc, argv_query, cfg_file, cfg_changes, out_file, out_before, pc,
          nrql_query, config_file, api_key, account_id, results, chart_url,
          download_ret, sent, responses, received, cfg_seen, events, stdout,
          exit_status, fault>>

env == <<argc, argv_query, out_before>>
http == <<sent, responses, received>>
locals == <<nrql_query, config_file, api_key, account_id, results, chart_url,
            download_ret>>

UsageText ==
    <<Line("usage", ""), Line("usage_syntax", "argv[0]"), Line("", ""),
      Line("example", ""), Line("example_command", "argv[0]"), Line("", ""),
      Line("config_format", ""), Line("config_shape", "")>>

InitWith(queries, configs, files) ==
    /\ argc \in 0..3
    /\ argv_query \in (IF argc = 0 THEN {<<>>} ELSE queries)
    /\ cfg_file \in configs
    /\ cfg_changes = 0
    /\ out_file \in files
    /\ out_before = out_file
    /\ pc = "main"
    /\ nrql_query = <<>>
    /\ config_file = ""
    /\ api_key = JNull
    /\ account_id = JNull
    /\ results = JNull
    /\ chart_url = JNull
    /\ download_ret = "unset"
    /\ sent = <<>>
    /\ responses = <<>>
    /\ received = <<>>
    /\ cfg_seen = <<>>
    /\ events = <<>>
    /\ stdout = <<>>
    /\ exit_status = -1
    /\ fault = NoExc

Init == InitWith(SeqsUpTo(Chars, MaxLen), ConfigFiles, {NoFile, FileOf("old")})

\* sys.exit(1) after printing lines
Exit1(lines) ==
    /\ pc' = "done"
    /\ exit_status' = 1
    /\ stdout' = stdout \o lines
    /\ fault' = NoExc

\* an exception nobody catches: traceback, exit status 1
Crash(exc, lines) ==
    /\ pc' = "done"
    /\ exit_status' = 1
    /\ stdout' = stdout \o lines
    /\ fault' = exc

\* len(sys.argv) < 3
TooFewArgsLax(n) == n + 1 < 2
TooFewArgs(n) == n + 1 < 3

\* main, lines 157-171: the argument check
main_args ==
    /\ pc = "main"
    /\ IF TooFewArgs(argc)
       THEN /\ Exit1(UsageText)
            /\ UNCHANGED <<nrql_query, config_file>>
       ELSE /\ nrql_query' = argv_query
            /\ config_file' = IF argc + 1 > 3 THEN "argv[3]" ELSE "config.json"
            /\ pc' = "load_api_key"
            /\ UNCHANGED <<stdout, exit_status, fault>>
    /\ UNCHANGED <<env, cfg_file, cfg_changes, out_file, api_key, account_id, results,
                   chart_url, download_ret, http, cfg_seen, events>>

\* which exceptions each loader catches
ApiKeyCaught(e) == e \in {"FileNotFoundError", "KeyError"}
AccountIdCaught(e) == e = "KeyError"

ApiKeyMessage(e) ==
    IF e = "FileNotFoundError"
    THEN <<Line("config_not_found", "config_file"), Line("create_config", ""),
           Line("config_shape", "")>>
    ELSE <<Line("api_key_missing", "")>>

\* load_api_key(config_file)
load_api_key ==
    /\ pc = "load_api_key"
    /\ cfg_seen' = Append(cfg_seen, cfg_file)
    /\ events' = Append(events, "open_config")
    /\ LET r == LoadField(cfg_file, "api_key")
       IN  IF r.exc = NoExc
           THEN /\ api_key' = r.val
                /\ pc' = "load_account_id"
                /\ UNCHANGED <<stdout, exit_status, fault>>
           ELSE /\ UNCHANGED api_key
                /\ IF ApiKeyCaught(r.exc)
                   THEN Exit1(ApiKeyMessage(r.exc))
                   ELSE Crash(r.exc, <<>>)
    /\ UNCHANGED <<env, cfg_file, cfg_changes, out_file, nrql_query, config_file,
                   account_id, results, chart_url, download_ret, http>>

\* load_account_id(config_file), and main's three prints after it
load_account_id ==
    /\ pc = "load_account_id"
    /\ cfg_seen' = Append(cfg_seen, cfg_file)
    /\ events' = Append(events, "open_config")
    /\ LET r == LoadField(cfg_file, "account_id")
       IN  IF r.exc = NoExc
           THEN /\ account_id' = r.val
                /\ pc' = "get_chart"
                /\ stdout' = stdout \o <<Line("running", ""), Line("query", "nrql_query"),
                                         Line("", "")>>
                /\ UNCHANGED <<exit_status, fault>>
           ELSE /\ UNCHANGED account_id
                /\ IF AccountIdCaught(r.exc)
                   THEN Exit1(<<Line("account_id_missing", "")>>)
                   ELSE Crash(r.exc, <<>>)
    /\ UNCHANGED <<env, cfg_file, cfg_changes, out_file, nrql_query, config_file,
                   api_key, results, chart_url, download_ret, http>>

\* get_chart_from_nrql(nrql_query, api_key, account_id)
get_chart_from_nrql ==
    /\ pc = "get_chart"
    /\ sent' = Append(sent, PostRequest(nrql_query, api_key, account_id))
    /\ events' = Append(events, "post")
    /\ \E outcome \in PostOutcomes :
         LET r == GetChartResult(outcome)
         IN  /\ responses' = Append(responses, outcome)
             /\ IF r.exc = NoExc
                THEN /\ results' = r.results
                     /\ chart_url' = r.chart_url
                     /\ stdout' = stdout \o r.lines
                     /\ pc' = "check_url"
                     /\ UNCHANGED <<exit_status, fault>>
                ELSE /\ Crash(r.exc, r.lines)
                     /\ UNCHANGED <<results, chart_url>>
    /\ UNCHANGED <<env, cfg_file, cfg_changes, out_file, nrql_query, config_file,
                   api_key, account_id, download_ret, received, cfg_seen>>

\* "if chart_url:"
HasChartUrlLax(url) == TRUE
HasChartUrl(url) == Truthy(url)

\* main, lines 184-198 up to the call of download_chart_image
main_check_url ==
    /\ pc = "check_url"
    /\ IF HasChartUrl(chart_url)
       THEN /\ stdout' = stdout \o <<Line("chart_url", "chart_url"), Line("", "")>>
                            \o (IF Truthy(results)
                                THEN <<Line("results", ""), Line("json", "results"),
                                       Line("", "")>>
                                ELSE <<>>)
            /\ pc' = "download"
            /\ UNCHANGED <<exit_status, fault>>
       ELSE Exit1(<<Line("failed", "")>>)
    /\ UNCHANGED <<env, cfg_file, cfg_changes, out_file, locals, http, cfg_seen,
                   events>>

\* a downloader that tries the GET again after a transport failure
download_chart_image_retry ==
    /\ pc = "download"
    /\ \E got \in GetOutcomes, w \in WriteOutcomes :
         LET r == DownloadResult(out_file, got, w)
         IN  /\ received' = Append(received, got)
             /\ events' = events \o <<"get">> \o (IF r.opened THEN <<"write">> ELSE <<>>)
             /\ out_file' = r.file
             /\ download_ret' = r.ret
             /\ IF r.exc = NoExc
                THEN /\ pc' = IF r.ret = "True" THEN "done" ELSE "download"
                     /\ exit_status' = IF r.ret = "True" THEN 0 ELSE exit_status
                     /\ stdout' = stdout \o r.lines
                     /\ fault' = NoExc
                ELSE Crash(r.exc, r.lines)
    /\ UNCHANGED <<env, cfg_file, cfg_changes, nrql_query, config_file, api_key,
                   account_id, results, chart_url, sent, responses, cfg_seen>>

\* download_chart_image(chart_url, output_filename), then main returns
download_chart_image ==
    /\ pc = "download"
    /\ \E got \in GetOutcomes, w \in WriteOutcomes :
         LET r == DownloadResult(out_file, got, w)
         IN  /\ received' = Append(received, got)
             /\ events' = events \o <<"get">> \o (IF r.opened THEN <<"write">> ELSE <<>>)
             /\ out_file' = r.file
             /\ download_ret' = r.ret
             /\ IF r.exc = NoExc
                THEN /\ pc' = "done"
                     /\ exit_status' = 0
                     /\ stdout' = stdout \o r.lines
                     /\ fault' = NoExc
                ELSE Crash(r.exc, r.lines)
    /\ UNCHANGED <<env, cfg_file, cfg_changes, nrql_query, config_file, api_key,
                   account_id, results, chart_url, sent, responses, cfg_seen>>

\* another process rewrites or removes the configuration file during the run
config_file_changes ==
    /\ pc \in {"load_api_key", "load_account_id"}
    /\ cfg_changes < MaxCfgChanges
    /\ cfg_changes' = cfg_changes + 1
    /\ \E f \in ConfigFiles \ {cfg_file} : cfg_file' = f
    /\ UNCHANGED <<env, out_file, pc, locals, http, cfg_seen, events, stdout,
                   exit_status, fault>>

Next ==
    \/ main_args
    \/ load_api_key
    \/ load_account_id
    \/ get_chart_from_nrql
    \/ main_check_url
    \/ download_chart_image
    \/ config_file_changes

Spec == Init /\ [][Next]_vars

\* runs on queries up to MaxEscLen, with the configuration in place
InitEscape ==
    InitWith(SeqsUpTo(Chars, MaxEscLen), {JsonFile(FullConfig("k1", 1))}, {NoFile})
NextEscape ==
    \/ main_args
    \/ load_api_key
    \/ load_account_id
    \/ get_chart_from_nrql

SpecEscape == InitEscape /\ [][NextEscape]_vars

\* ------------------------------------------------------------- properties
Done == pc = "done"
NoHttp == sent = <<>> /\ received = <<>>
OutputUntouched == out_file = out_before /\ "write" \notin {events[i] : i \in DOMAIN events}
Printed(tag) == \E i \in DOMAIN stdout : stdout[i].line = tag
LastPrinted(tag) == stdout # <<>> /\ stdout[Len(stdout)].line = tag
HasField(file, key) == file.kind = "json" /\ HasKey(file.obj, key)

\* C1: once get_chart_from_nrql has returned a chart URL, the process ends with
\* exit status 0 whatever the download step does.
C1_ExitZeroOnceUrlObtained ==
    (Done /\ Truthy(chart_url)) => exit_status = 0

C2_Deficient(f) == f.kind = "absent" \/ (f.kind = "json" /\ ~HasKey(f.obj, "api_key"))
                       \/ (f.kind = "json" /\ ~HasKey(f.obj, "account_id"))

\* C2: a configuration file that is absent when opened, that lacks api_key when
\* load_api_key parses it, or lacks account_id when load_account_id parses it
\* (and so any file that stays absent or deficient for the whole run), ends the
\* run with a non-zero status, with no POST, no GET and no write of the output.
C2_ConfigErrorsAreFatal ==
    LET bad1 == Len(cfg_seen) >= 1 /\ (cfg_seen[1].kind = "absent"
                    \/ (cfg_seen[1].kind = "json" /\ ~HasKey(cfg_seen[1].obj, "api_key")))
        bad2 == Len(cfg_seen) >= 2 /\ (cfg_seen[2].kind = "absent"
                    \/ (cfg_seen[2].kind = "json" /\ ~HasKey(cfg_seen[2].obj, "account_id")))
        fatal == /\ NoHttp /\ responses = <<>> /\ OutputUntouched
                 /\ pc \notin {"get_chart", "check_url", "download"}
                 /\ Done => exit_status # 0
    IN  /\ (bad1 \/ bad2) => (Done /\ fatal)
        /\ (cfg_changes = 0 /\ C2_Deficient(cfg_file)) => fatal
C2_Witness ==
    /\ Done /\ exit_status = 1 /\ Len(cfg_seen) = 2 /\ cfg_changes = 0
    /\ HasField(cfg_seen[2], "api_key") /\ ~HasField(cfg_seen[2], "account_id")
    /\ Printed("account_id_missing")

\* C3: when get_chart_from_nrql returns without a chart URL, main prints the
\* failure message and exits with status 1; the downloader is never invoked
\* and the output file stays as it was.
C3_NoUrlIsFailure ==
    /\ (pc = "check_url" /\ ~Truthy(chart_url)) => (received = <<>> /\ OutputUntouched)
    /\ (Done /\ sent # <<>> /\ fault = NoExc /\ ~Truthy(chart_url)) =>
          /\ exit_status = 1
          /\ LastPrinted("failed")
          /\ received = <<>> /\ download_ret = "unset"
          /\ ~Printed("saved") /\ ~Printed("download_error")
          /\ OutputUntouched
C3_Witness ==
    /\ Done /\ exit_status = 1 /\ LastPrinted("failed") /\ Printed("api_request_error")
    /\ responses = <<[exc |-> "HTTPError", body |-> JNull]>>
    /\ out_before.exists /\ out_file = out_before

\* C4: download_chart_image returns True only after the output file holds
\* exactly the received body in place of any previous content; on a transport
\* failure of the GET it returns False, raises nothing, and leaves the output
\* file alone.
C4_DownloadWritesBodyOrNothing ==
    /\ download_ret = "True" =>
          /\ Len(received) = 1 /\ received[1].exc = NoExc
          /\ out_file = FileOf(received[1].content)
          /\ Printed("saved")
    /\ (received # <<>> /\ received[1].exc # NoExc) =>
          /\ download_ret = "False" /\ fault = NoExc
          /\ OutputUntouched
          /\ LastPrinted("download_error")
C4_Witness ==
    /\ download_ret = "True" /\ out_before = FileOf("old") /\ out_file = FileOf("img2")
    /\ received[1].content = "img2"

\* ---- C5
C5_HasErrors == Len(responses) = 1 /\ responses[1].exc = NoExc
                   /\ HasKey(responses[1].body, "errors")
C5_Errors == responses[1].body.v.errors.v
C5_MessageOf(e) == IF HasKey(e, "message") THEN e.v.message.v ELSE "<no message>"
C5_PrintedMessages ==
    LET ls == SelectSeq(stdout, LAMBDA l : l.line = "graphql_error")
    IN  [i \in 1..Len(ls) |-> ls[i].arg]
C5_ReturnedAbsentPair ==
    /\ fault = NoExc /\ pc \in {"check_url", "done"}
    /\ results = JNull /\ chart_url = JNull
C5_AllHaveMessage == \A i \in DOMAIN C5_Errors : HasKey(C5_Errors[i], "message")

\* C5 as stated: for every JSON response with an errors array, the message of
\* every element is printed, in array order, and the absent pair is returned.
C5_AsStated ==
    C5_HasErrors =>
        /\ C5_PrintedMessages = [i \in 1..Len(C5_Errors) |-> C5_MessageOf(C5_Errors[i])]
        /\ C5_ReturnedAbsentPair

\* C5 amended: for every JSON response with an errors array whose elements all
\* have a message field (a data field with a chart URL may be present too),
\* every message is printed once, in array order, after the header line, and
\* the absent pair is returned; an element without message raises KeyError.
C5_ErrorsWithMessagesPrinted ==
    /\ (C5_HasErrors /\ C5_AllHaveMessage) =>
          /\ C5_PrintedMessages = [i \in 1..Len(C5_Errors) |-> C5_Errors[i].v.message.v]
          /\ Printed("graphql_errors")
          /\ C5_ReturnedAbsentPair
    /\ (C5_HasErrors /\ ~C5_AllHaveMessage) => (Done /\ fault = "KeyError")
C5_Witness ==
    /\ C5_HasErrors /\ HasKey(responses[1].body, "data")
    /\ C5_Errors = <<JObj([message |-> JStr("m2")]), JObj([message |-> JStr("m1")])>>
    /\ C5_PrintedMessages = <<"m2", "m1">>
    /\ Done /\ exit_status = 1 /\ chart_url = JNull

\* C6: with fewer than two positional arguments main prints the usage text and
\* exits with status 1; the configuration file is never opened, no HTTP request
\* is issued and the output file is not written.
C6_TooFewArgsOnlyUsage ==
    argc < 2 =>
        /\ pc \in {"main", "done"}
        /\ cfg_seen = <<>> /\ events = <<>> /\ NoHttp /\ responses = <<>>
        /\ out_file = out_before
        /\ Done => (exit_status = 1 /\ stdout = UsageText /\ fault = NoExc)
C6_Witness ==
    argc = 1 /\ Done /\ exit_status = 1 /\ stdout = UsageText /\ cfg_seen = <<>>

\* ---- C7
C7_QuotesBefore(q, i) == Cardinality({j \in 1..(i - 1) : q[j] = DQ})
\* C7: the query text of the document is the input with every double quote
\* replaced by one backslash and the double quote, all other characters
\* (backslashes and newlines too) copied unchanged in the same order.
C7_QuotesEscapedOnce ==
    sent # <<>> =>
        LET q == nrql_query
            d == sent[1].query.query
        IN  /\ Len(d) = Len(q) + C7_QuotesBefore(q, Len(q) + 1)
            /\ \A i \in 1..Len(q) :
                 LET p == i + C7_QuotesBefore(q, i)
                 IN  IF q[i] = DQ
                     THEN d[p] = BS /\ d[p + 1] = DQ
                     ELSE d[p] = q[i]
C7_Witness ==
    /\ nrql_query = <<DQ, BS, DQ>>
    /\ sent # <<>> /\ sent[1].query.query = <<BS, DQ, BS, BS, DQ>>

\* ---- C8
\* C8 as stated: the configuration file is opened and parsed once per run, and
\* the API-Key header and the account id of the document are the two fields
\* of that one parsed content.
C8_AsStated ==
    /\ Len(cfg_seen) <= 1
    /\ sent # <<>> =>
          \E i \in DOMAIN cfg_seen :
             /\ HasField(cfg_seen[i], "api_key") /\ HasField(cfg_seen[i], "account_id")
             /\ sent[1].api_key = cfg_seen[i].obj.v.api_key
             /\ sent[1].query.account_id = cfg_seen[i].obj.v.account_id

\* C8 amended: the configuration file is opened and parsed at most twice per
\* run, by load_api_key and then by load_account_id; the loaded values never
\* change afterwards; the API-Key header is the api_key of the content the
\* first open found and the account id of the document is the account_id of
\* the content the second open found, which are fields of one content when the
\* file did not change between the two opens.
C8_EachFieldLoadedOnce ==
    /\ Len(cfg_seen) <= 2
    /\ Len(sent) <= 1
    /\ api_key # JNull =>
          /\ HasField(cfg_seen[1], "api_key") /\ api_key = cfg_seen[1].obj.v.api_key
    /\ account_id # JNull =>
          /\ Len(cfg_seen) = 2 /\ HasField(cfg_seen[2], "account_id")
          /\ account_id = cfg_seen[2].obj.v.account_id
    /\ sent # <<>> =>
          /\ api_key # JNull /\ account_id # JNull
          /\ sent[1].api_key = api_key /\ sent[1].query.account_id = account_id
          /\ cfg_seen[1] = cfg_seen[2] =>
                /\ sent[1].api_key = cfg_seen[1].obj.v.api_key
                /\ sent[1].query.account_id = cfg_seen[1].obj.v.account_id
C8_Witness ==
    /\ sent # <<>> /\ Len(cfg_seen) = 2 /\ cfg_seen[1] # cfg_seen[2]
    /\ sent[1].api_key = JStr("k1") /\ sent[1].query.account_id = JNum(2)

\* C9: at most one POST and one GET per run; the POST comes after both
\* configuration fields are loaded, the GET after the POST returned a chart
\* URL, the write of the output file after a successful GET; never otherwise.
C9_Order == <<"open_config", "open_config", "post", "get", "write">>
C9_OneShotInOrder ==
    /\ Len(sent) <= 1 /\ Len(received) <= 1
    /\ Len(events) <= Len(C9_Order) /\ events = SubSeq(C9_Order, 1, Len(events))
    /\ sent # <<>> => (api_key # JNull /\ account_id # JNull /\ Len(cfg_seen) = 2)
    /\ received # <<>> =>
          /\ Len(responses) = 1 /\ responses[1].exc = NoExc
          /\ Truthy(chart_url)
    /\ out_file # out_before => (received # <<>> /\ received[1].exc = NoExc)
    /\ Len(events) = 5 => received[1].exc = NoExc
C9_Witness ==
    /\ Done /\ events = C9_Order /\ exit_status = 0 /\ download_ret = "True"

\* ---- C10
C10_PathComplete(b) ==
    /\ HasKey(b, "data") /\ HasKey(b.v.data, "actor")
    /\ HasKey(b.v.data.v.actor, "account")
    /\ HasKey(b.v.data.v.actor.v.account, "nrql")
    /\ HasKey(b.v.data.v.actor.v.account.v.nrql, "results")
    /\ HasKey(b.v.data.v.actor.v.account.v.nrql, "staticChartUrl")
\* C10: a JSON response without errors that lacks a key on the path to
\* results / staticChartUrl makes get_chart_from_nrql raise: the error leaves
\* main unhandled, the failure message is not printed, no GET is issued and
\* the output file is not written.
C10_MissingKeyPropagates ==
    (/\ Len(responses) = 1 /\ responses[1].exc = NoExc
     /\ ~HasKey(responses[1].body, "errors")
     /\ ~C10_PathComplete(responses[1].body)) =>
        /\ Done /\ fault = "KeyError"
        /\ ~Printed("failed") /\ ~Printed("api_request_error")
        /\ received = <<>> /\ download_ret = "unset"
        /\ OutputUntouched
C10_Witness ==
    /\ Done /\ fault = "KeyError" /\ exit_status = 1
    /\ responses = <<[exc |-> NoExc, body |->
          JObj([data |-> JObj([actor |-> JObj([account |-> JObj([nrql |->
              JObj([results |-> JArr(<<>>)])])])])])]>>
====
